---- MODULE Spec2Model ----
\* Model of the advance-submission workflow (cse_labbook/aiida/future.py) and of
\* the graph scheduler (cse_labbook/aiida/graph.py) of hpc-labbook.
\*
\* The AiiDA engine that runs the work chains is the execution substrate: a work
\* chain step runs to its end without interruption, and a work chain that has
\* registered awaitables (self.to_context) runs its next step only once every
\* awaited process has terminated.  Jobs, monitors and work chains of different
\* nodes run concurrently.
EXTENDS Integers, Sequences, FiniteSets, TLC

\* ------------------------------------------------------------------ bounds
\* Number of entries of graph.nodes.
NumNodes == 4
\* Longest edge list of an input graph.
MaxEdges == 2
\* AsyncWorkchain.start sets ctx.timeout = 30 (seconds) with ctx.wait_time = 1:
\* thirty polls.  The graph specification scales the budget down to MaxWait so
\* that time_waited stays small; the polling specification draws the timeout and
\* the poll interval from 0..MaxTimeout and 1..MaxInterval.
MaxWait == 1
MaxTimeout == 3
MaxInterval == 2

\* ------------------------------------------------------------------ program constants
\* ctx.wait_time in AsyncWorkchain.start
wait_time == 1

Nodes == 0 .. (NumNodes - 1)
\* Python's None, for a field that holds a string and for one that holds an identifier.
None == "None"
NoId == <<>>

\* ------------------------------------------------------------------ sequences
Range(s) == {s[i] : i \in 1 .. Len(s)}

RECURSIVE SeqsUpTo(_, _)
\* All sequences over S of length at most n.
SeqsUpTo(S, n) ==
    IF n = 0 THEN {<<>>}
    ELSE LET shorter == SeqsUpTo(S, n - 1)
         IN  shorter \cup {Append(s, x) : s \in {t \in shorter : Len(t) = n - 1}, x \in S}

RECURSIVE SumLen(_, _)
SumLen(ss, i) == IF i > Len(ss) THEN 0 ELSE Len(ss[i]) + SumLen(ss, i + 1)

\* Python's list.append of x unless x is already a key (dict insertion order).
AddNew(s, x) == IF x \in Range(s) THEN s ELSE Append(s, x)

\* ------------------------------------------------------------------ networkx
\* nx.DiGraph(graph.edges): the nodes are those named by an edge, in the order
\* in which the edge list first names them; parallel edges collapse.
RECURSIVE DiGraphNodes(_, _)
DiGraphNodes(es, k) ==
    IF k = 0 THEN <<>>
    ELSE AddNew(AddNew(DiGraphNodes(es, k - 1), es[k][1]), es[k][2])

RECURSIVE successors(_, _, _)
\* dag.successors(n) over the first k edges, in adjacency insertion order.
successors(es, n, k) ==
    IF k = 0 THEN <<>>
    ELSE IF es[k][1] = n THEN AddNew(successors(es, n, k - 1), es[k][2])
         ELSE successors(es, n, k - 1)

RECURSIVE predecessors(_, _, _)
\* dag.predecessors(n) over the first k edges, in adjacency insertion order.
predecessors(es, n, k) ==
    IF k = 0 THEN <<>>
    ELSE IF es[k][2] = n THEN AddNew(predecessors(es, n, k - 1), es[k][1])
         ELSE predecessors(es, n, k - 1)

in_degree(es, n) == Len(predecessors(es, n, Len(es)))

RECURSIVE SelectSeq2(_, _, _)
\* [v for v in s if in_degree(v) == 0]
SelectSeq2(es, s, i) ==
    IF i > Len(s) THEN <<>>
    ELSE IF in_degree(es, s[i]) = 0 THEN <<s[i]>> \o SelectSeq2(es, s, i + 1)
         ELSE SelectSeq2(es, s, i + 1)

\* The element of a one-element set: binds a value that is computed once.
TheOne(S) == CHOOSE r \in S : TRUE

\* indegree_map[child] -= 1; a child whose in-degree reaches 0 joins the next
\* generation.
VisitChild(st, c) ==
    [indeg |-> [st.indeg EXCEPT ![c] = @ - 1],
     zero  |-> IF st.indeg[c] - 1 = 0 THEN Append(st.zero, c) ELSE st.zero]

RECURSIVE FoldChildren(_, _, _)
\* for child in G.neighbors(node): ...
FoldChildren(st, ch, j) ==
    IF j > Len(ch) THEN st
    ELSE TheOne({FoldChildren(VisitChild(s, ch[j]), ch, j + 1) : s \in {st}})

RECURSIVE FoldGeneration(_, _, _, _)
\* for node in this_generation: ...
FoldGeneration(es, st, gen, i) ==
    IF i > Len(gen) THEN st
    ELSE TheOne({FoldGeneration(es, s, gen, i + 1) :
                    s \in {FoldChildren(st, successors(es, gen[i], Len(es)), 1)}})

RECURSIVE Layers(_, _, _)
\* while zero_indegree: yield this_generation
Layers(es, indeg, zero) ==
    IF zero = <<>> THEN <<>>
    ELSE TheOne({<<zero>> \o Layers(es, st.indeg, st.zero) :
                    st \in {FoldGeneration(es, [indeg |-> indeg, zero |-> <<>>], zero, 1)}})

\* The generations Kahn's layering yields before it stops (networkx raises
\* NetworkXUnfeasible after them when nodes with a positive in-degree remain).
KahnLayers(es) ==
    Layers(es, [n \in Nodes |-> in_degree(es, n)],
           SelectSeq2(es, DiGraphNodes(es, Len(es)), 1))

\* Variant: a graph is always taken for a DAG.
is_directed_acyclic_graph_Always(es) == TRUE

\* nx.is_directed_acyclic_graph(dag): the layering consumes every node.
is_directed_acyclic_graph(es) ==
    SumLen(KahnLayers(es), 1) = Len(DiGraphNodes(es, Len(es)))

\* Variant: the plan runs through the generations twice.
topological_generations_Twice(es) == KahnLayers(es) \o KahnLayers(es)

\* list(nx.topological_generations(dag))
topological_generations(es) == KahnLayers(es)


\* ------------------------------------------------------------------ state
VARIABLES
    nodes,   \* len(self.inputs.graph.obj.nodes): graph.nodes[i] exists for 0 <= i < nodes
    edges,   \* self.inputs.graph.obj.edges of the GraphWorkchain
    gw,      \* the GraphWorkchain process and its ctx
    async,   \* per graph node: the AsyncWorkchain submitted for it
    mon,     \* per graph node: the wait_for_submitted PyFunction of its AsyncWorkchain
    job,     \* per graph node: the GenericCalculation CalcJob in the substrate
    future,  \* per graph node: the "future" output of its AsyncWorkchain
    inputs_workdir,  \* inputs.workdir.obj: the TargetDir of a job
    inputs_futures,  \* the futures given with the job
    out,             \* what the calls on the TargetDir have returned or done so far
    fs,      \* the project directory and the user data directory of the hpclb commands
    cli,     \* the last hpclb command invoked and how it ended
    db,      \* the computers and the code of the AiiDA database of a job spec
    generic, \* a jobspec.Generic: its computer and code fields
    loaded   \* what Generic.load_computer returned or raised

\* The variables of the staging functions, which the work chains leave alone.
staging_vars == <<inputs_workdir, inputs_futures, out>>

\* The variables of the command line and of the job spec.
cli_vars == <<fs, cli>>
jobspec_vars == <<db, generic, loaded>>

vars == <<nodes, edges, gw, async, mon, job, future, staging_vars, cli_vars, jobspec_vars>>

\* Identifiers the substrate hands out: the uuid of the CalcJob of node n, the id
\* the remote scheduler gives it and the remote working directory it gets.
CalcUuid(n) == <<"uuid", n>>
SchedulerJobId(n) == <<"jobid", n>>
RemoteWorkdir(n) == <<"workdir", n>>
\* orm.load_node(uuid): the node the uuid belongs to.
load_node(u) == u[2]

JobTerminal == {"excepted", "killed", "finished_ok", "finished_failed"}
JobFailed == {"excepted", "killed", "finished_failed"}
ProcTerminal == {"finished_ok", "excepted"}

\* submissions counts the self.submit calls made for the CalcJob of the node.
NoJob == [state |-> "none", job_id |-> NoId, remote_workdir |-> NoId, submissions |-> 0]
NoFuture == [uuid |-> NoId, jobid |-> NoId, workdir |-> NoId]
NoMon == [state |-> "none", time_waited |-> 0, poll_interval |-> 0, timeout |-> 0,
          snap_state |-> None, error |-> None, chk_queued |-> None, seen_state |-> None]
NoAsync == [state |-> "none", submitted |-> NoId, futures |-> <<>>, afterok |-> <<>>,
            exception |-> None, exit_code |-> None]
NoGw == [state |-> "none", iteration |-> 0, front |-> <<>>, node_async |-> {},
         awaiting |-> {}, all |-> {}, exit_code |-> None]

\* Variant: a job counts as queued only once it has completed.
NotQueued_UntilDone(j) ==
    j.job_id = NoId \/ j.remote_workdir = NoId \/ j.state \notin JobTerminal

\* submitted.get_job_id() is None or submitted.get_remote_workdir() is None
NotQueued(j) == j.job_id = NoId \/ j.remote_workdir = NoId

\* ------------------------------------------------------------------ the CalcJob in the substrate
\* The upload step of the substrate sets the remote working directory.
JobGetsWorkdir(n) ==
    /\ job[n].state = "active"
    /\ job[n].remote_workdir = NoId
    /\ job' = [job EXCEPT ![n].remote_workdir = RemoteWorkdir(n)]
    /\ UNCHANGED <<nodes, edges, gw, async, mon, future, staging_vars, cli_vars, jobspec_vars>>

\* The remote scheduler accepts the job and gives it an id.
JobGetsId(n) ==
    /\ job[n].state = "active"
    /\ job[n].job_id = NoId
    /\ job' = [job EXCEPT ![n].job_id = SchedulerJobId(n)]
    /\ UNCHANGED <<nodes, edges, gw, async, mon, future, staging_vars, cli_vars, jobspec_vars>>

JobExcepts(n) ==
    /\ job[n].state = "active"
    /\ job' = [job EXCEPT ![n].state = "excepted"]
    /\ UNCHANGED <<nodes, edges, gw, async, mon, future, staging_vars, cli_vars, jobspec_vars>>

JobKilled(n) ==
    /\ job[n].state = "active"
    /\ job' = [job EXCEPT ![n].state = "killed"]
    /\ UNCHANGED <<nodes, edges, gw, async, mon, future, staging_vars, cli_vars, jobspec_vars>>

\* A job finishes only after it was queued.
JobFinishes(n) ==
    /\ job[n].state = "active"
    /\ ~NotQueued(job[n])
    /\ \E s \in {"finished_ok", "finished_failed"} :
          job' = [job EXCEPT ![n].state = s]
    /\ UNCHANGED <<nodes, edges, gw, async, mon, future, staging_vars, cli_vars, jobspec_vars>>


\* ------------------------------------------------------------------ wait_for_submitted
\* Variant: the budget counts as spent only once it is exceeded.
BudgetSpent_Strict(time_waited, timeout) == time_waited > timeout

\* if time_waited >= timeout: raise SubmittingTimedOutError
BudgetSpent(time_waited, timeout) == time_waited >= timeout

\* Variant: a killed job is not told from a running one.
MatchProcessState_NoKilled(s) ==
    IF s = "excepted" THEN "NotSubmittedError" ELSE None

\* match submitted.process_state: the exception the state raises, None for `case _`.
MatchProcessState(s) ==
    CASE s = "excepted" -> "NotSubmittedError"
      [] s = "killed"   -> "KilledBeforeSubmittedError"
      [] OTHER          -> None

\* The head of the while loop, on the node j as load_node just returned it: leave
\* the loop when the job has both its id and its working directory, raise when
\* the budget is spent, sleep otherwise.  chk_queued records what the loop
\* condition saw; snap_state is the process state of the loaded node, kept while
\* the function goes on.
LoopHead(m, j) ==
    IF ~NotQueued(j)
    THEN [m EXCEPT !.state = "finished_ok", !.chk_queued = "queued", !.snap_state = None]
    ELSE IF BudgetSpent(m.time_waited, m.timeout)
         THEN [m EXCEPT !.state = "failed", !.error = "SubmittingTimedOutError",
                        !.chk_queued = "not_queued", !.snap_state = None]
         ELSE [m EXCEPT !.state = "sleeping", !.chk_queued = "not_queued",
                        !.snap_state = j.state]

\* The function is entered: submitted = orm.load_node(uuid); time_waited = 0; the
\* first evaluation of the loop condition.
MonitorEnter(n) ==
    /\ mon[n].state = "created"
    /\ mon' = [mon EXCEPT ![n] = LoopHead(mon[n], job[n])]
    /\ UNCHANGED <<nodes, edges, gw, async, job, future, staging_vars, cli_vars, jobspec_vars>>

\* asyncio.sleep returns: time_waited += poll_interval, the match on
\* submitted.process_state, the reload of the node and the next evaluation of
\* the loop condition.  `submitted` was loaded before the sleep; whether reading
\* process_state through it gives the state stored then or the state stored now
\* is up to the storage backend, so the match may see either (seen_state records
\* which one it saw).
MonitorWake(n) ==
    /\ mon[n].state = "sleeping"
    /\ \E seen \in {mon[n].snap_state, job[n].state} :
          LET m1 == [mon[n] EXCEPT !.time_waited = @ + mon[n].poll_interval,
                                   !.seen_state = seen]
          IN  mon' = [mon EXCEPT ![n] =
                        IF MatchProcessState(seen) # None
                        THEN [m1 EXCEPT !.state = "failed", !.error = MatchProcessState(seen),
                                        !.snap_state = None]
                        ELSE LoopHead(m1, job[n])]
    /\ UNCHANGED <<nodes, edges, gw, async, job, future, staging_vars, cli_vars, jobspec_vars>>

\* ------------------------------------------------------------------ AsyncWorkchain
\* Whether the "\n".join over data.iter_future_links in start can raise: the
\* links are resolved only if "futures" is in self.inputs.calc, and then a
\* FuturePath of the node's workdir whose input_label is no key of the futures
\* raises ValueError.  The workdir of a graph node is an input this
\* specification leaves open; SpecLinks works iter_future_links out in full.
LinkOutcomes(futures) == IF futures = <<>> THEN {"resolved"} ELSE {"resolved", "ValueError"}

\* AsyncWorkchain.start: resolve the future links, submit the CalcJob, keep its
\* uuid in ctx.submitted, submit the monitor with ctx.wait_time and ctx.timeout
\* and wait for it.  A step that raises ends the work chain excepted.
AsyncStart(n) ==
    /\ async[n].state = "created"
    /\ \E links \in LinkOutcomes(async[n].futures) :
          IF links = "ValueError"
          THEN /\ async' = [async EXCEPT ![n].state = "excepted",
                                         ![n].exception = "ValueError"]
               /\ UNCHANGED <<job, mon>>
          ELSE /\ job' = [job EXCEPT ![n] =
                             [NoJob EXCEPT !.state = "active",
                                           !.submissions = job[n].submissions + 1]]
               /\ async' = [async EXCEPT ![n].state = "waiting",
                                         ![n].submitted = CalcUuid(n)]
               /\ mon' = [mon EXCEPT ![n] = [NoMon EXCEPT !.state = "created",
                                                          !.poll_interval = wait_time,
                                                          !.timeout = MaxWait]]
    /\ UNCHANGED <<nodes, edges, gw, future, staging_vars, cli_vars, jobspec_vars>>

\* Variant: emit_future does not look at the monitor's outcome.
monitor_is_finished_ok_Unchecked(n) == TRUE

\* self.ctx.monitor.is_finished_ok
monitor_is_finished_ok(n) == mon[n].state = "finished_ok"

\* Variant: the future is made before the scheduler's id is known.
create_future_NoJobId(uuid, jobid, workdir) == [uuid |-> uuid, jobid |-> NoId, workdir |-> workdir]

\* create_future(uuid, jobid, workdir)
create_future(uuid, jobid, workdir) == [uuid |-> uuid, jobid |-> jobid, workdir |-> workdir]

\* What is left of a terminated monitor once emit_future has read it: nothing
\* reads its counters again.
Archived(m) ==
    [NoMon EXCEPT !.state = m.state, !.error = m.error, !.chk_queued = m.chk_queued]

\* Variant: a failed monitor makes the work chain start over.
OnMonitorFailed_Retry(n) ==
    /\ async' = [async EXCEPT ![n].state = "created"]
    /\ mon' = [mon EXCEPT ![n] = NoMon]
    /\ UNCHANGED <<job, future>>

\* Variant: a failed monitor takes the submitted job down with it.
OnMonitorFailed_KillsJob(n) ==
    /\ async' = [async EXCEPT ![n].state = "excepted",
                              ![n].exception = "NotSubmittedError"]
    /\ mon' = [mon EXCEPT ![n] = Archived(mon[n])]
    /\ job' = [job EXCEPT ![n].state = "killed"]
    /\ UNCHANGED future

\* emit_future when the monitor did not finish ok: four reports and
\* `raise NotSubmittedError`; the submitted CalcJob is not touched.
OnMonitorFailed(n) ==
    /\ async' = [async EXCEPT ![n].state = "excepted",
                              ![n].exception = "NotSubmittedError"]
    /\ mon' = [mon EXCEPT ![n] = Archived(mon[n])]
    /\ UNCHANGED <<job, future>>

\* AsyncWorkchain.emit_future, run once the monitor has terminated: raise
\* NotSubmittedError unless the monitor finished ok, else load the CalcJob again
\* and output its future.
EmitFuture(n) ==
    /\ async[n].state = "waiting"
    /\ mon[n].state \in {"finished_ok", "failed"}
    /\ IF ~monitor_is_finished_ok(n)
       THEN OnMonitorFailed(n)
       ELSE LET submitted == job[load_node(async[n].submitted)]
            IN  /\ future' = [future EXCEPT ![n] =
                                create_future(async[n].submitted, submitted.job_id,
                                              submitted.remote_workdir)]
                /\ async' = [async EXCEPT ![n].state = "finished_ok",
                                          ![n].exit_code = "OK"]
                /\ mon' = [mon EXCEPT ![n] = Archived(mon[n])]
                /\ UNCHANGED job
    /\ UNCHANGED <<nodes, edges, gw, staging_vars, cli_vars, jobspec_vars>>


\* ------------------------------------------------------------------ GraphWorkchain
\* GraphWorkchain.start: NOT_A_DAG unless the edges form a DAG, else
\* ctx.iteration = 0 and ctx.front = the topological generations.
GraphStart ==
    /\ gw.state = "created"
    /\ IF ~is_directed_acyclic_graph(edges)
       THEN gw' = [gw EXCEPT !.state = "finished", !.exit_code = "NOT_A_DAG"]
       ELSE gw' = [gw EXCEPT !.state = "running", !.iteration = 0,
                             !.front = topological_generations(edges)]
    /\ UNCHANGED <<nodes, edges, async, mon, job, future, staging_vars, cli_vars, jobspec_vars>>

\* Variant: the work chain does not wait for what it put into its context.
AwaitablesResolved_NoWait == TRUE

\* Variant: the work chain also waits for the CalcJobs of the AsyncWorkchains it
\* awaits.
AwaitablesResolved_JobsDone ==
    /\ \A n \in gw.awaiting :
          async[n].state \in ProcTerminal /\ job[n].state \in JobTerminal \cup {"none"}
    /\ \A u \in gw.all : job[load_node(u)].state \in JobTerminal

\* The engine runs the next step of a work chain once every process it awaits
\* (self.to_context) has terminated.
AwaitablesResolved ==
    /\ \A n \in gw.awaiting : async[n].state \in ProcTerminal
    /\ \A u \in gw.all : job[load_node(u)].state \in JobTerminal

\* ctx.node_async once the awaited AsyncWorkchains are resolved into it.
ctx_node_async == gw.node_async \cup gw.awaiting

\* Variant: the loop ends one generation early.
not_reached_end_result_OneShort == gw.iteration + 1 < Len(gw.front)

\* self.ctx.iteration < len(self.ctx.front)
not_reached_end_result == gw.iteration < Len(gw.front)

\* dag.predecessors(node_idx)
dependencies(n) == predecessors(edges, n, Len(edges))

\* Variant: a dependency counts as fine once its AsyncWorkchain has terminated.
dependency_is_finished_ok_Terminated(d) == async[d].state \in ProcTerminal

\* dependency.is_finished_ok, of the AsyncWorkchain in ctx.node_async
dependency_is_finished_ok(d) == async[d].state = "finished_ok"

\* for dependency in dependencies.values(): if not dependency.is_finished_ok
DependenciesOk(n) ==
    \A i \in 1 .. Len(dependencies(n)) : dependency_is_finished_ok(dependencies(n)[i])

\* The position in the generation at which submit_front returns JOB_FAILED, or
\* one past its end.
FirstFailing(gen) ==
    IF \E i \in 1 .. Len(gen) : ~DependenciesOk(gen[i])
    THEN CHOOSE i \in 1 .. Len(gen) :
            /\ ~DependenciesOk(gen[i])
            /\ \A k \in 1 .. (i - 1) : DependenciesOk(gen[k])
    ELSE Len(gen) + 1

\* node = graph.nodes[node_idx] raises IndexError unless the index is one of the
\* list (the indices of the model are not negative).
IndexInRange(n) == n < nodes

\* The position in the generation at which graph.nodes[node_idx] raises, or one
\* past its end.
FirstRaising(gen) ==
    IF \E i \in 1 .. Len(gen) : ~IndexInRange(gen[i])
    THEN CHOOSE i \in 1 .. Len(gen) :
            /\ ~IndexInRange(gen[i])
            /\ \A k \in 1 .. (i - 1) : IndexInRange(gen[k])
    ELSE Len(gen) + 1

\* Variant: the futures are keyed by their position among the dependencies.
FutureKey_ByPosition(deps, i) == <<"dep", i - 1>>

\* f"dep_{i}" for i, d in dependencies.items(): the key is the node index of
\* the dependency.
FutureKey(deps, i) == <<"dep", deps[i]>>

\* The AsyncWorkchain submit_front builds for node n: the futures of its
\* dependencies under dep_<i> and the job ids for `#SBATCH -d afterok:`.
BuildAsync(n) ==
    LET deps == dependencies(n)
    IN  [state     |-> "created",
         submitted |-> NoId,
         exception |-> None,
         exit_code |-> None,
         futures   |-> [i \in 1 .. Len(deps) |-> [key |-> FutureKey(deps, i),
                                                  value |-> future[deps[i]]]],
         afterok   |-> [i \in 1 .. Len(deps) |-> future[deps[i]].jobid]]

\* Variant: the loop passes over a node it cannot submit and goes on with the
\* rest of the generation.
SubmittedBefore_SkipsDependents(gen, stop) ==
    {gen[i] : i \in {k \in 1 .. Len(gen) : DependenciesOk(gen[k]) /\ IndexInRange(gen[k])}}

\* The nodes the for loop submits before it returns or raises at position stop.
SubmittedBefore(gen, stop) == {gen[i] : i \in 1 .. (stop - 1)}

\* not_reached_end returns True and submit_front runs: the nodes of the
\* generation are submitted in order until one has a dependency that did not
\* finish ok, which ends the work chain with JOB_FAILED, or one whose index is
\* not in graph.nodes, which raises IndexError after the dependency check of
\* that node; otherwise ctx.iteration += 1 and the work chain waits for the
\* submitted AsyncWorkchains.
GraphSubmitFront ==
    /\ gw.state = "running"
    /\ AwaitablesResolved
    /\ not_reached_end_result
    /\ LET gen    == gw.front[gw.iteration + 1]
           failed == FirstFailing(gen)
           raised == FirstRaising(gen)
           stop   == IF failed <= raised THEN failed ELSE raised
           now    == SubmittedBefore(gen, stop)
       IN  /\ async' = [n \in Nodes |-> IF n \in now THEN BuildAsync(n) ELSE async[n]]
           /\ IF stop <= Len(gen) /\ failed <= raised
              THEN gw' = [gw EXCEPT !.state = "finished", !.exit_code = "JOB_FAILED",
                                    !.node_async = ctx_node_async, !.awaiting = now]
              ELSE IF stop <= Len(gen)
              THEN gw' = [gw EXCEPT !.state = "excepted",
                                    !.node_async = ctx_node_async, !.awaiting = now]
              ELSE gw' = [gw EXCEPT !.iteration = @ + 1,
                                    !.node_async = ctx_node_async, !.awaiting = now]
    /\ UNCHANGED <<nodes, edges, mon, job, future, staging_vars, cli_vars, jobspec_vars>>

\* Variant: an AsyncWorkchain without a future output is passed over.
outputs_future_raises_Never(n) == FALSE

\* node_async.outputs.future raises when the AsyncWorkchain has output no future.
outputs_future_raises(n) == future[n] = NoFuture

\* not_reached_end returns False: ctx.all = [] and the CalcJob of every
\* ctx.node_async entry, loaded by the uuid of its future, is awaited.  The step
\* raises when ctx has no node_async or an entry has no future output.
GraphAwaitAll ==
    /\ gw.state = "running"
    /\ AwaitablesResolved
    /\ ~not_reached_end_result
    /\ IF ctx_node_async = {} \/ \E n \in ctx_node_async : outputs_future_raises(n)
       THEN gw' = [gw EXCEPT !.state = "excepted", !.node_async = ctx_node_async,
                             !.awaiting = {}]
       ELSE gw' = [gw EXCEPT !.state = "finalizing", !.node_async = ctx_node_async,
                             !.awaiting = {},
                             !.all = {future[n].uuid :
                                         n \in {m \in ctx_node_async : future[m] # NoFuture}}]
    /\ UNCHANGED <<nodes, edges, async, mon, job, future, staging_vars, cli_vars, jobspec_vars>>

\* GraphWorkchain.finalize, run once every awaited CalcJob has terminated.
GraphFinalize ==
    /\ gw.state = "finalizing"
    /\ AwaitablesResolved
    /\ gw' = [gw EXCEPT !.state = "finished", !.exit_code = "OK"]
    /\ UNCHANGED <<nodes, edges, async, mon, job, future, staging_vars, cli_vars, jobspec_vars>>

\* ------------------------------------------------------------------ data.py: TargetDir
\* Bounds of the TargetDir inputs: levels below the root and entries of a subdirs list.
MaxDepth == 2
MaxSubdirs == 2

\* Directory names of the TargetDirs below the root.
DirNames == {"a", "b"}

\* UploadFile, RemotePath, FuturePath; a pathlib.Path is the sequence of its parts.
UploadFile(source, input_label, tgt_name) ==
    [source |-> source, input_label |-> input_label, tgt_name |-> tgt_name]
RemotePath(src_path, tgt_name, copy) ==
    [src_path |-> src_path, tgt_name |-> tgt_name, copy |-> copy]
FuturePath(src_relpath, input_label, tgt_name) ==
    [src_relpath |-> src_relpath, input_label |-> input_label, tgt_name |-> tgt_name]

\* TargetDir(name, subdirs, upload, remote, from_future)
TargetDir(name, subdirs, files) ==
    [name |-> name, subdirs |-> subdirs, upload |-> files.upload,
     remote |-> files.remote, from_future |-> files.from_future]

RECURSIVE TargetDirs(_, _, _)
\* The TargetDirs of at most depth levels of subdirs, named over names, with the
\* file lists of one of files.
TargetDirs(names, files, depth) ==
    LET subs == IF depth = 0 THEN {<<>>}
                ELSE SeqsUpTo(TargetDirs(names, files, depth - 1), MaxSubdirs)
    IN  {TargetDir(n, s, f) : n \in names, s \in subs, f \in files}

NoTargetDir == TargetDir("", <<>>, [upload |-> <<>>, remote |-> <<>>, from_future |-> <<>>])

RECURSIVE Join(_, _)
\* sep.join(parts)
Join(sep, parts) ==
    IF parts = <<>> THEN ""
    ELSE IF Len(parts) = 1 THEN parts[1]
         ELSE parts[1] \o sep \o Join(sep, Tail(parts))

\* pathlib.Path.name: the last part.
PathName(p) == p[Len(p)]

\* calcjob.inputs.uploaded.get(label).uuid, calcjob.inputs.code.computer.uuid
UploadedUuid(input_label) == <<"uploaded", input_label>>
ComputerUuid == <<"computer">>

UploadTriplet(uuid, src_name, tgt_path) ==
    [uuid |-> uuid, src_name |-> src_name, tgt_path |-> tgt_path]
RemoteTriplet(uuid, src_path, tgt_path) ==
    [uuid |-> uuid, src_path |-> src_path, tgt_path |-> tgt_path]

NoLists == [local_copy |-> <<>>, remote_copy |-> <<>>, remote_link |-> <<>>]

\* `path = path or []` keeps the caller's list object unless it is None or
\* empty: what the callee appends to a non-empty path, the caller sees.
SameList(path) == path # <<>>

\* Variant: the lists of the previous top-level call are carried over.
NewLists_Kept(kept) == kept

\* local_copy = [], remote_copy = [], remote_link = []: new lists in each call.
NewLists(kept) == NoLists

\* Variant: every remote path is a copy.
IsCopy_Always(file) == TRUE

\* i[0] of a remote triplet: file.copy
IsCopy(file) == file.copy

RECURSIVE SelectRemote(_, _, _, _)
\* [i[1] for i in remote_triplets if i[0]]  /  if not i[0]
SelectRemote(remote, path, copy, i) ==
    IF i > Len(remote) THEN <<>>
    ELSE LET file == remote[i]
             rest == SelectRemote(remote, path, copy, i + 1)
         IN  IF IsCopy(file) = copy
             THEN <<RemoteTriplet(ComputerUuid, Join("/", file.src_path),
                                  Join("/", Append(path, file.tgt_name)))>> \o rest
             ELSE rest

RECURSIVE create_triplets(_, _, _, _)
RECURSIVE TripletsOfSubdirs(_, _, _)
\* for subdir in target_dir.subdirs: create_triplets(subdir, path=path, is_root=False)
\* and the three extends; acc.path is what the list `path` holds.
TripletsOfSubdirs(subdirs, i, acc) ==
    IF i > Len(subdirs) THEN acc
    ELSE LET r == create_triplets(subdirs[i], acc.path, FALSE, NoLists)
         IN  TripletsOfSubdirs(subdirs, i + 1,
                [local_copy  |-> acc.local_copy \o r.local_copy,
                 remote_copy |-> acc.remote_copy \o r.remote_copy,
                 remote_link |-> acc.remote_link \o r.remote_link,
                 path        |-> IF SameList(acc.path) THEN r.path ELSE acc.path])

\* create_triplets(target_dir, calcjob, path, is_root); kept are the lists an
\* earlier call returned.  The result holds the three lists and what the list
\* `path` of this call holds at the end.
create_triplets(target_dir, path, is_root, kept) ==
    LET p1   == IF ~is_root THEN Append(path, target_dir.name) ELSE path
        new  == NewLists(kept)
        sub  == TripletsOfSubdirs(target_dir.subdirs, 1,
                   [local_copy |-> new.local_copy, remote_copy |-> new.remote_copy,
                    remote_link |-> new.remote_link, path |-> p1])
        p    == sub.path
        ups  == [i \in 1 .. Len(target_dir.upload) |->
                    LET file == target_dir.upload[i]
                    IN  UploadTriplet(UploadedUuid(file.input_label), PathName(file.source),
                                      Join("/", Append(p, file.tgt_name)))]
    IN  [local_copy  |-> sub.local_copy \o ups,
         remote_copy |-> sub.remote_copy \o SelectRemote(target_dir.remote, p, TRUE, 1),
         remote_link |-> sub.remote_link \o SelectRemote(target_dir.remote, p, FALSE, 1),
         path        |-> p]

RECURSIVE create_dirs(_, _, _, _)
RECURSIVE DirsOfSubdirs(_, _, _, _)
\* for subdir in target_dir.subdirs: folder.get_subfolder("/".join([*path,
\* subdir.name]), create=True), which makes the directory below `folder` with
\* its missing parents, then create_dirs(subdir, subfolder, path, False).
DirsOfSubdirs(subdirs, folder, i, acc) ==
    IF i > Len(subdirs) THEN acc
    ELSE LET subfolder == folder \o Append(acc.path, subdirs[i].name)
             r == create_dirs(subdirs[i], subfolder, acc.path, FALSE)
         IN  DirsOfSubdirs(subdirs, folder, i + 1,
                [made |-> (acc.made \o <<subfolder>>) \o r.made,
                 path |-> IF SameList(acc.path) THEN r.path ELSE acc.path])

\* create_dirs(target_dir, folder, path, is_root): the directories get_subfolder
\* is made to create, in call order, each as its parts below the staging folder
\* (`folder` is the parts of the current folder), and what `path` holds at the end.
create_dirs(target_dir, folder, path, is_root) ==
    LET p1 == IF ~is_root THEN Append(path, target_dir.name) ELSE path
    IN  DirsOfSubdirs(target_dir.subdirs, folder, 1, [made |-> <<>>, path |-> p1])


\* ------------------------------------------------------------------ data.py: iter_future_links
\* Keys of the futures a job can be given.
FutureKeys == {"dep_0", "dep_1"}

\* The futures of a job: whether any were given at all, and under which keys.
NoFutures == [given |-> FALSE, keys |-> {}]
FuturesInputs == {NoFutures} \cup [given : {TRUE}, keys : SUBSET FutureKeys]

\* future.obj.workdir of the future given under a key
FutureWorkdir(key) == <<"scratch", key>>

\* futures_ns.get(file.input_label, None) is None
futures_get_is_none(futures_ns, input_label) == input_label \notin futures_ns.keys

\* What a generator does when it is driven to its end, in order: the values it
\* yields and, last, the exception it raises if it raises one.
Yield(value) == [kind |-> "yield", value |-> value]
Raise(exception) == [kind |-> "raise", value |-> exception]
Raises(events) == events # <<>> /\ events[Len(events)].kind = "raise"
\* Nothing runs after a raise.
Then(first, second) == IF Raises(first) THEN first ELSE first \o second

RECURSIVE LinksOfFiles(_, _, _, _)
\* for file in target_dir.from_future: yield the `ln -s` line, or raise ValueError
LinksOfFiles(files, futures_ns, path, i) ==
    IF i > Len(files) THEN <<>>
    ELSE LET file == files[i]
         IN  IF futures_get_is_none(futures_ns, file.input_label)
             THEN <<Raise("ValueError")>>
             ELSE <<Yield("ln -s "
                          \o Join("/", FutureWorkdir(file.input_label) \o file.src_relpath)
                          \o " " \o Join("/", Append(path, file.tgt_name)))>>
                  \o LinksOfFiles(files, futures_ns, path, i + 1)

\* Variant: the subdirs are not visited.
LinksOfSubdirs_Skipped(subdirs, futures_ns, path, i) == <<>>

RECURSIVE iter_future_links(_, _, _, _)
RECURSIVE LinksOfSubdirs(_, _, _, _)
\* for subdir in target_dir.subdirs: yield from iter_future_links(subdir, ...)
LinksOfSubdirs(subdirs, futures_ns, path, i) ==
    IF i > Len(subdirs) THEN <<>>
    ELSE Then(iter_future_links(subdirs[i], futures_ns, path, FALSE),
              LinksOfSubdirs(subdirs, futures_ns, path, i + 1))

\* iter_future_links(target_dir, futures_ns, path, is_root); `path /= name` makes
\* a new Path, so the caller's path stays as it is.
iter_future_links(target_dir, futures_ns, path, is_root) ==
    LET p == IF ~is_root THEN Append(path, target_dir.name) ELSE path
    IN  Then(LinksOfFiles(target_dir.from_future, futures_ns, p, 1),
             LinksOfSubdirs(target_dir.subdirs, futures_ns, p, 1))

\* The values among the first n events.
RECURSIVE Yielded(_, _)
Yielded(events, n) ==
    IF n = 0 THEN <<>>
    ELSE IF events[n].kind = "yield" THEN Append(Yielded(events, n - 1), events[n].value)
         ELSE Yielded(events, n - 1)

\* ------------------------------------------------------------------ staging a job
\* `out` before anything was called.
NoOut == [step |-> "new",
          dirs |-> <<>>, triplets |-> NoLists, again |-> NoLists,
          reordered_dirs |-> <<>>, reordered_triplets |-> NoLists,
          gen |-> "running", consumed |-> 0, yielded |-> <<>>,
          start |-> "none", prepend_text |-> "", builder |-> "none"]

\* The three lists of a create_triplets result.
Lists(r) == [local_copy |-> r.local_copy, remote_copy |-> r.remote_copy,
             remote_link |-> r.remote_link]

\* GenericCalculation.prepare_for_submission: create_dirs on the staging folder,
\* then create_triplets, both called with the TargetDir alone.
PrepareForSubmission ==
    /\ out.step = "new"
    /\ out' = [out EXCEPT
                 !.step = "prepared",
                 !.dirs = create_dirs(inputs_workdir, <<>>, <<>>, TRUE).made,
                 !.triplets = Lists(create_triplets(inputs_workdir, <<>>, TRUE, NoLists))]
    /\ UNCHANGED <<nodes, edges, gw, async, mon, job, future, inputs_workdir, inputs_futures, cli_vars, jobspec_vars>>

\* A second top-level create_triplets call on the same TargetDir.
CreateTripletsAgain ==
    /\ out.step = "prepared"
    /\ out' = [out EXCEPT
                 !.step = "again",
                 !.again = Lists(create_triplets(inputs_workdir, <<>>, TRUE, out.triplets))]
    /\ UNCHANGED <<nodes, edges, gw, async, mon, job, future, inputs_workdir, inputs_futures, cli_vars, jobspec_vars>>

Reverse(s) == [i \in 1 .. Len(s) |-> s[Len(s) + 1 - i]]

RECURSIVE SiblingOrders(_)
\* The TargetDirs that differ from t in the order of the subdirs of one directory.
SiblingOrders(t) ==
    {[t EXCEPT !.subdirs = Reverse(t.subdirs)]}
       \cup UNION {{[t EXCEPT !.subdirs[i] = u] : u \in SiblingOrders(t.subdirs[i])} :
                      i \in 1 .. Len(t.subdirs)}

\* create_dirs and create_triplets on the TargetDir with the subdirs of one of
\* its directories in another order.
PrepareReordered ==
    /\ out.step = "again"
    /\ \E t \in SiblingOrders(inputs_workdir) :
          /\ t # inputs_workdir
          /\ out' = [out EXCEPT
                       !.step = "reordered",
                       !.reordered_dirs = create_dirs(t, <<>>, <<>>, TRUE).made,
                       !.reordered_triplets = Lists(create_triplets(t, <<>>, TRUE, NoLists))]
    /\ UNCHANGED <<nodes, edges, gw, async, mon, job, future, inputs_workdir, inputs_futures, cli_vars, jobspec_vars>>

\* The generator iter_future_links(target_dir, futures_ns) is asked for its next
\* value: it yields one, raises, or is exhausted.
GeneratorNext ==
    /\ out.gen = "running"
    /\ LET events == iter_future_links(inputs_workdir, inputs_futures, <<>>, TRUE)
           n == out.consumed + 1
       IN  IF n > Len(events)
           THEN out' = [out EXCEPT !.gen = "exhausted"]
           ELSE out' = [out EXCEPT
                          !.consumed = n,
                          !.yielded = Yielded(events, n),
                          !.gen = IF events[n].kind = "raise" THEN "raised" ELSE "running"]
    /\ UNCHANGED <<nodes, edges, gw, async, mon, job, future, inputs_workdir, inputs_futures, cli_vars, jobspec_vars>>

\* AsyncWorkchain.start up to the submission of the CalcJob: the links are
\* joined into prepend_text only if "futures" is in self.inputs.calc; a raise in
\* the join ends the step before self.submit.
StartSubmit ==
    /\ out.start = "none"
    /\ LET events == iter_future_links(inputs_workdir, inputs_futures, <<>>, TRUE)
       IN  IF inputs_futures.given /\ Raises(events)
           THEN out' = [out EXCEPT !.start = "ValueError"]
           ELSE out' = [out EXCEPT
                          !.start = "submitted",
                          !.prepend_text =
                             IF inputs_futures.given
                             THEN Join("\n", Yielded(events, Len(events)))
                             ELSE ""]
    /\ UNCHANGED <<nodes, edges, gw, async, mon, job, future, inputs_workdir, inputs_futures, cli_vars, jobspec_vars>>

\* Generic.to_builder: the links over self.futures (an empty dict when none
\* were given) are always joined into prepend_text.
to_builder ==
    /\ out.builder = "none"
    /\ LET events == iter_future_links(inputs_workdir, inputs_futures, <<>>, TRUE)
       IN  out' = [out EXCEPT !.builder = IF Raises(events) THEN "ValueError" ELSE "built"]
    /\ UNCHANGED <<nodes, edges, gw, async, mon, job, future, inputs_workdir, inputs_futures, cli_vars, jobspec_vars>>

\* ------------------------------------------------------------------ jobspec.py: Generic.load_computer
\* Labels of the computers an AiiDA database can hold.
ComputerLabels == {"localhost", "daint", "santis"}

\* The code the spec names, as the database holds it: absent, a portable code
\* (no computer) or a code installed on one of the computers.
NoCode == [kind |-> "absent", computer |-> None]
PortableCode == [kind |-> "portable", computer |-> None]
InstalledCode(computer) == [kind |-> "installed", computer |-> computer]

NoDb == [computers |-> {}, code |-> NoCode]
NoGeneric == [computer |-> None]
NoLoaded == [kind |-> "none", value |-> None]

\* What a call ends with: the value it returns (Raise is the other ending).
Return(value) == [kind |-> "return", value |-> value]

\* `if self.computer:` of a str | None
Truthy(s) == s # None /\ s # ""

\* orm.load_computer(label)
orm_load_computer(d, label) ==
    IF label \in d.computers THEN Return(label) ELSE Raise("NotExistent")

\* self.load_code(): orm.load_code(self.code)
load_code(d) == IF d.code.kind = "absent" THEN Raise("NotExistent") ELSE Return(d.code)

\* Variant: the computer of the code is not looked at.
comp_from_code_Missing(code) == None

\* comp_from_code := self.load_code().computer
comp_from_code(code) == code.computer

\* Generic.load_computer
load_computer(d, g) ==
    IF Truthy(g.computer) THEN orm_load_computer(d, g.computer)
    ELSE LET code == load_code(d)
         IN  IF code.kind = "raise" THEN code
             ELSE IF comp_from_code(code.value) # None
                  THEN Return(comp_from_code(code.value))
                  ELSE Raise("ComputerNotFoundError")

\* spec.load_computer() is called.
CallLoadComputer ==
    /\ loaded = NoLoaded
    /\ loaded' = load_computer(db, generic)
    /\ UNCHANGED <<nodes, edges, gw, async, mon, job, future, staging_vars, cli_vars, db, generic>>

\* No job spec is loaded in the other specifications.
NoJobspec ==
    /\ db = NoDb
    /\ generic = NoGeneric
    /\ loaded = NoLoaded

\* ------------------------------------------------------------------ hpclb command line
\* Bounds: commands invoked on one project, and authentications recorded.
MaxCommands == 4
MaxAuths == 2

\* Sites with an add-site command; auth-site is modelled for the test cluster.
Sites == {"cscs", "f7ttest"}
AuthSites == {"f7ttest"}
ProjectNames == {"basic_init", "existing_init"}
AuthIds == 1 .. MaxAuths
\* Return codes of the uv and verdi subprocesses.
ReturnCodes == {0, 1}

\* hpclb.yaml: absent, an empty file (touched), or a stored project.Config with
\* its sites, the auth id of the machine of each site (0: no machine) and the
\* auths of each site.
NoConfigFile ==
    [file |-> "absent", name |-> "", sites |-> {},
     machines |-> [s \in Sites |-> 0], auths |-> [s \in Sites |-> {}]]
EmptyConfigFile == [NoConfigFile EXCEPT !.file = "empty"]
Config(name) == [NoConfigFile EXCEPT !.file = "valid", !.name = name]

\* The project path: whether the directory exists, its config file,
\* pyproject.toml, .env, the AiiDA profile, the site directories (absent, empty
\* or filled with the site's yaml files); and the secret files of the user data
\* directory.
NoFs ==
    [dir |-> FALSE, config |-> NoConfigFile, pyproject |-> FALSE, env |-> FALSE,
     profile |-> FALSE, site_dir |-> [s \in Sites |-> "absent"],
     user_data_dir |-> FALSE, secrets |-> {}]

NoCli == [count |-> 0, command |-> <<"none">>, exit_code |-> 0, message |-> ""]

\* A command ended: its exit code and the message it printed last.
Ended(command, exit_code, message) ==
    [count |-> cli.count + 1, command |-> command, exit_code |-> exit_code,
     message |-> message]

\* this.config_file.exists()
config_file_exists(f) == f.config.file # "absent"

\* Variant: any path is taken for a new project.
path_is_not_project_Unchecked(f) == TRUE

\* params.path_is_not_project: the path passes unless the config file exists.
path_is_not_project(f) == ~config_file_exists(f)

\* Variant: a site counts as absent while the config does not list it.
project_site_absent_ByConfig(f, site) == site \notin f.config.sites

\* params.project_site_absent(site): the path passes unless the site directory
\* exists.  exit_on_uninitialized_project builds a typer.Exit without raising
\* it, so a missing config file does not stop the validator.
project_site_absent(f, site) == f.site_dir[site] = "absent"

\* Variant: auth-site takes any project.
project_site_present_Unchecked(f, site) == TRUE

\* params.project_site_present(site): the path passes if the site directory
\* exists.
project_site_present(f, site) == f.site_dir[site] # "absent"

\* hpclb init PATH --name NAME.  The parser of PATH rejects an initialized
\* project with exit code 2.  The body makes the directory, runs `uv init`
\* unless pyproject.toml exists, writes the config, runs `uv add` (exit code 1
\* when it fails), writes .env, rewrites pyproject.toml (which raises when uv
\* init did not make it), runs `uv add` again (exit code 1 when it fails) and
\* `verdi presto`.
init ==
    /\ cli.count < MaxCommands
    /\ \E name \in ProjectNames, uv_init, uv_add, uv_add_aiida, presto \in ReturnCodes :
          IF ~path_is_not_project(fs)
          THEN /\ cli' = Ended(<<"init">>, 2, "Project is already initialized.")
               /\ fs' = fs
          ELSE LET pyproject == fs.pyproject \/ uv_init = 0
                   f1 == [fs EXCEPT !.dir = TRUE, !.pyproject = pyproject,
                                    !.config = Config(name)]
                   f2 == [f1 EXCEPT !.env = TRUE]
               IN  IF uv_add # 0
                   THEN cli' = Ended(<<"init">>, 1, "added minimum python dependencies") /\ fs' = f1
                   ELSE IF ~pyproject
                   THEN cli' = Ended(<<"init">>, 1, "FileNotFoundError") /\ fs' = f2
                   ELSE IF uv_add_aiida # 0
                   THEN cli' = Ended(<<"init">>, 1, "add minimum python dependencies") /\ fs' = f2
                   ELSE /\ cli' = Ended(<<"init">>, 0, "create an AiiDA profile")
                        /\ fs' = [f2 EXCEPT !.profile = fs.profile \/ presto = 0]
    /\ UNCHANGED <<nodes, edges, gw, async, mon, job, future, staging_vars, jobspec_vars>>

\* hpclb add-site SITE PATH.  The parser of PATH rejects a project that has the
\* site directory with exit code 2.  The body reads the config (which raises
\* when the file is missing or empty), sets sites[SITE] to a new Site, writes the
\* config, makes the site directory and writes the site's yaml files into it.
add_site(site) ==
    /\ cli.count < MaxCommands
    /\ IF ~project_site_absent(fs, site)
       THEN /\ cli' = Ended(<<"add-site", site>>, 2, "site '" \o site \o "' already present.")
            /\ fs' = fs
       ELSE IF fs.config.file # "valid"
       THEN /\ cli' = Ended(<<"add-site", site>>, 1, "config cannot be read")
            /\ fs' = fs
       ELSE /\ cli' = Ended(<<"add-site", site>>, 0, "Ready to authenticate")
            /\ fs' = [fs EXCEPT !.config.sites = @ \cup {site},
                                !.config.machines[site] = 0,
                                !.config.auths[site] = {},
                                !.site_dir[site] = "filled"]
    /\ UNCHANGED <<nodes, edges, gw, async, mon, job, future, staging_vars, jobspec_vars>>

\* uuid.uuid4().hex: an id no secret file and no auth has yet.
FreshAuthIds(f) ==
    {a \in AuthIds : a \notin f.secrets /\ \A s \in Sites : a \notin f.config.auths[s]}

\* hpclb auth-site f7ttest PATH.  The parser of PATH rejects a project without
\* the site directory with exit code 2.  The body reads the config, makes the
\* user data directory, looks up sites[SITE] (KeyError when the config does not
\* list the site), runs `verdi computer configure` and, when that succeeded,
\* records the machine and the auth in the config and writes the secret file.
auth_site(site) ==
    /\ cli.count < MaxCommands
    /\ FreshAuthIds(fs) # {}
    /\ \E configure \in ReturnCodes :
          LET auth_id == CHOOSE a \in FreshAuthIds(fs) : \A b \in FreshAuthIds(fs) : a <= b
          IN  IF ~project_site_present(fs, site)
              THEN /\ cli' = Ended(<<"auth-site", site>>, 2,
                                   "site '" \o site \o "' not added yet, add it with")
                   /\ fs' = fs
              ELSE IF fs.config.file # "valid"
              THEN /\ cli' = Ended(<<"auth-site", site>>, 1, "config cannot be read")
                   /\ fs' = fs
              ELSE IF site \notin fs.config.sites
              THEN /\ cli' = Ended(<<"auth-site", site>>, 1, "KeyError")
                   /\ fs' = [fs EXCEPT !.user_data_dir = TRUE]
              ELSE IF configure # 0
              THEN /\ cli' = Ended(<<"auth-site", site>>, 0, "authenticate to the test cluster")
                   /\ fs' = [fs EXCEPT !.user_data_dir = TRUE]
              ELSE /\ cli' = Ended(<<"auth-site", site>>, 0, "update project config")
                   /\ fs' = [fs EXCEPT !.user_data_dir = TRUE,
                                       !.config.machines[site] = auth_id,
                                       !.config.auths[site] = @ \cup {auth_id},
                                       !.secrets = @ \cup {auth_id}]
    /\ UNCHANGED <<nodes, edges, gw, async, mon, job, future, staging_vars, jobspec_vars>>

\* What the tests do to a project by hand: (tmp_path / "hpclb.yaml").touch()
\* and (proj.path / site).mkdir().
TouchConfig ==
    /\ fs.dir
    /\ fs.config.file = "absent"
    /\ fs' = [fs EXCEPT !.config = EmptyConfigFile]
    /\ UNCHANGED <<nodes, edges, gw, async, mon, job, future, staging_vars, cli, jobspec_vars>>

MkdirSite(site) ==
    /\ fs.dir
    /\ fs.site_dir[site] = "absent"
    /\ fs' = [fs EXCEPT !.site_dir[site] = "empty"]
    /\ UNCHANGED <<nodes, edges, gw, async, mon, job, future, staging_vars, cli, jobspec_vars>>

\* No command is invoked in the other specifications.
NoCommands ==
    /\ fs = NoFs
    /\ cli = NoCli

\* ------------------------------------------------------------------ specifications
\* The graph scheduler on every edge list of at most MaxEdges edges over the
\* indices of graph.nodes.
Canonical(es) ==
    LET ns == DiGraphNodes(es, Len(es)) IN \A i \in 1 .. Len(ns) : ns[i] = i - 1

Init ==
    /\ nodes = NumNodes
    /\ edges \in {es \in SeqsUpTo(Nodes \X Nodes, MaxEdges) : Canonical(es)}
    /\ gw = [NoGw EXCEPT !.state = "created"]
    /\ async = [n \in Nodes |-> NoAsync]
    /\ mon = [n \in Nodes |-> NoMon]
    /\ job = [n \in Nodes |-> NoJob]
    /\ future = [n \in Nodes |-> NoFuture]
    /\ inputs_workdir = NoTargetDir
    /\ inputs_futures = NoFutures
    /\ out = NoOut
    /\ NoCommands
    /\ NoJobspec

Next ==
    \/ GraphStart
    \/ GraphSubmitFront
    \/ GraphAwaitAll
    \/ GraphFinalize
    \/ \E n \in Nodes :
          \/ AsyncStart(n)
          \/ EmitFuture(n)
          \/ MonitorEnter(n)
          \/ MonitorWake(n)
          \/ JobGetsWorkdir(n)
          \/ JobGetsId(n)
          \/ JobExcepts(n)
          \/ JobKilled(n)
          \/ JobFinishes(n)

Spec == Init /\ [][Next]_vars

\* The engine runs the steps of the work chains and monitors that can run, and
\* a job that has not ended goes on to its end: the run does not stop while a
\* step can be taken.
SpecFair ==
    /\ Spec
    /\ WF_vars(Next)


\* wait_for_submitted on its own: called with a poll interval in 1..MaxInterval
\* and a timeout in 0..MaxTimeout on the uuid of a CalcJob that was submitted
\* some time before, in whatever state that job is by then.
SubmittedJobs ==
    {j \in [state : {"active"} \cup JobTerminal,
            job_id : {NoId, SchedulerJobId(0)},
            remote_workdir : {NoId, RemoteWorkdir(0)},
            submissions : {1}] :
        j.state \in {"finished_ok", "finished_failed"} => ~NotQueued(j)}

InitPoll ==
    /\ nodes = NumNodes
    /\ edges = <<>>
    /\ gw = NoGw
    /\ async = [n \in Nodes |-> NoAsync]
    /\ future = [n \in Nodes |-> NoFuture]
    /\ \E j \in SubmittedJobs :
          job = [n \in Nodes |-> IF n = 0 THEN j ELSE NoJob]
    /\ \E i \in 1 .. MaxInterval, t \in 0 .. MaxTimeout :
          mon = [n \in Nodes |->
                    IF n = 0
                    THEN [NoMon EXCEPT !.state = "created", !.poll_interval = i,
                                       !.timeout = t]
                    ELSE NoMon]
    /\ inputs_workdir = NoTargetDir
    /\ inputs_futures = NoFutures
    /\ out = NoOut
    /\ NoCommands
    /\ NoJobspec

NextPoll ==
    \E n \in Nodes :
       \/ MonitorEnter(n)
       \/ MonitorWake(n)
       \/ JobGetsWorkdir(n)
       \/ JobGetsId(n)
       \/ JobExcepts(n)
       \/ JobKilled(n)
       \/ JobFinishes(n)

SpecPoll == InitPoll /\ [][NextPoll]_vars

\* The engine runs the function once it is submitted, and asyncio.sleep returns
\* after the poll interval: the two steps of the polling are taken when they
\* can be.  Nothing is assumed of the job.
SpecPollFair ==
    /\ SpecPoll
    /\ WF_vars(MonitorEnter(0))
    /\ WF_vars(MonitorWake(0))


\* The graph scheduler on graphs whose edges may name an index that graph.nodes
\* does not have: graph.nodes is shorter than the range the edges are drawn from.
InitIndex ==
    /\ nodes \in 1 .. (NumNodes - 1)
    /\ edges \in {es \in SeqsUpTo(Nodes \X Nodes, MaxEdges) : Canonical(es)}
    /\ gw = [NoGw EXCEPT !.state = "created"]
    /\ async = [n \in Nodes |-> NoAsync]
    /\ mon = [n \in Nodes |-> NoMon]
    /\ job = [n \in Nodes |-> NoJob]
    /\ future = [n \in Nodes |-> NoFuture]
    /\ inputs_workdir = NoTargetDir
    /\ inputs_futures = NoFutures
    /\ out = NoOut
    /\ NoCommands
    /\ NoJobspec

SpecIndex == InitIndex /\ [][Next]_vars


\* The files of a directory in the inputs of the staging specification: none, or
\* an upload with a remote path to copy and one to link.
StagingFiles ==
    {[upload |-> <<>>, remote |-> <<>>, from_future |-> <<>>],
     [upload |-> <<UploadFile(<<"inputs", "foo.config">>, "config_file", "input.config")>>,
      remote |-> <<RemotePath(<<"some", "path", "somefile.xml">>, "data.xml", TRUE),
                   RemotePath(<<"some", "path", "dir">>, "datadir", FALSE)>>,
      from_future |-> <<>>]}

\* No work chain runs in the specifications of the staging functions.
NoScheduler ==
    /\ nodes = NumNodes
    /\ edges = <<>>
    /\ gw = NoGw
    /\ async = [n \in Nodes |-> NoAsync]
    /\ mon = [n \in Nodes |-> NoMon]
    /\ job = [n \in Nodes |-> NoJob]
    /\ future = [n \in Nodes |-> NoFuture]

\* create_dirs and create_triplets on every TargetDir "root" of at most MaxDepth
\* levels of subdirs and at most MaxSubdirs subdirs per directory.
InitStaging ==
    /\ NoScheduler
    /\ inputs_workdir \in
          {TargetDir("root", s, f) :
              s \in SeqsUpTo(TargetDirs(DirNames, StagingFiles, MaxDepth - 1), MaxSubdirs),
              f \in StagingFiles}
    /\ inputs_futures = NoFutures
    /\ out = NoOut
    /\ NoCommands
    /\ NoJobspec

NextStaging ==
    \/ PrepareForSubmission
    \/ CreateTripletsAgain
    \/ PrepareReordered

SpecStaging == InitStaging /\ [][NextStaging]_vars


\* Levels of subdirs in the inputs of the links specification.
MaxLinkDepth == 1

\* The from_future list of a directory in the inputs of the links specification.
LinkFiles ==
    LET f0 == FuturePath(<<"out", "result.nc">>, "dep_0", "input.nc")
        f1 == FuturePath(<<"out", "grid.nc">>, "dep_1", "grid.nc")
    IN  {[upload |-> <<>>, remote |-> <<>>, from_future |-> ff] :
            ff \in {<<>>, <<f0>>, <<f1>>, <<f0, f1>>}}

\* iter_future_links, on its own and in AsyncWorkchain.start and
\* Generic.to_builder, on every TargetDir "root" of at most MaxLinkDepth levels
\* and every futures input.
InitLinks ==
    /\ NoScheduler
    /\ inputs_workdir \in
          {TargetDir("root", s, f) :
              s \in SeqsUpTo(TargetDirs(DirNames, LinkFiles, MaxLinkDepth - 1), MaxSubdirs),
              f \in LinkFiles}
    /\ inputs_futures \in FuturesInputs
    /\ out = NoOut
    /\ NoCommands
    /\ NoJobspec

NextLinks ==
    \/ GeneratorNext
    \/ StartSubmit
    \/ to_builder

SpecLinks == InitLinks /\ [][NextLinks]_vars


\* Levels of subdirs in the inputs of the deep links specification.
MaxDeepLinkDepth == 2

\* The from_future list of a directory there: empty, or two links.
DeepLinkFiles ==
    {[upload |-> <<>>, remote |-> <<>>, from_future |-> ff] :
        ff \in {<<>>, <<FuturePath(<<"out.txt">>, "dep_0", "input.txt"),
                        FuturePath(<<"out", "grid.nc">>, "dep_1", "grid.nc")>>}}

\* iter_future_links driven to its end on every TargetDir "root" of at most
\* MaxDeepLinkDepth levels, with both futures given or only one of them.
InitDeepLinks ==
    /\ NoScheduler
    /\ inputs_workdir \in
          {TargetDir("root", s, f) :
              s \in SeqsUpTo(TargetDirs(DirNames, DeepLinkFiles, MaxDeepLinkDepth - 1),
                             MaxSubdirs),
              f \in DeepLinkFiles}
    /\ inputs_futures \in [given : {TRUE}, keys : {FutureKeys, {"dep_0"}}]
    /\ out = NoOut
    /\ NoCommands
    /\ NoJobspec

NextDeepLinks == GeneratorNext

SpecDeepLinks == InitDeepLinks /\ [][NextDeepLinks]_vars


\* Generic.load_computer on every spec against every database: the spec names
\* no computer (None or ""), one the database holds or one it does not hold;
\* the code is absent, portable or installed on a computer of the database.
InitJobspec ==
    /\ NoScheduler
    /\ inputs_workdir = NoTargetDir
    /\ inputs_futures = NoFutures
    /\ out = NoOut
    /\ NoCommands
    /\ db \in UNION {[computers : {cs},
                      code : {NoCode, PortableCode} \cup {InstalledCode(c) : c \in cs}] :
                        cs \in SUBSET ComputerLabels}
    /\ generic \in [computer : {None, ""} \cup ComputerLabels]
    /\ loaded = NoLoaded

NextJobspec == CallLoadComputer

SpecJobspec == InitJobspec /\ [][NextJobspec]_vars


\* The hpclb commands on one project path, which exists or not, with nothing
\* in it at first.
InitCli ==
    /\ NoScheduler
    /\ inputs_workdir = NoTargetDir
    /\ inputs_futures = NoFutures
    /\ out = NoOut
    /\ NoJobspec
    /\ fs \in {NoFs, [NoFs EXCEPT !.dir = TRUE]}
    /\ cli = NoCli

NextCli ==
    \/ init
    \/ TouchConfig
    \/ \E site \in Sites :
          \/ add_site(site)
          \/ MkdirSite(site)
    \/ \E site \in AuthSites : auth_site(site)

SpecCli == InitCli /\ [][NextCli]_vars


\* ------------------------------------------------------------------ properties
\* The advance-submission of node n has been issued (submit_front submitted its
\* AsyncWorkchain).
Issued(n) == async[n].state # "none"

\* GraphWorkchain.start has computed a submission plan.
Planned == gw.state \notin {"none", "created"} /\ gw.exit_code # "NOT_A_DAG"

\* The generations of the plan that hold node n.
GenerationsOf(n) == {k \in 1 .. Len(gw.front) : n \in Range(gw.front[k])}

\* The edge relation and, independently of the layering, whether it has a cycle.
EdgeSet == Range(edges)

RECURSIVE Reaches(_, _, _)
\* b is reached from a along exactly k edges.
Reaches(a, b, k) ==
    IF k = 0 THEN a = b
    ELSE \E e \in EdgeSet : e[1] = a /\ Reaches(e[2], b, k - 1)

HasCycle == \E n \in Nodes, k \in 1 .. NumNodes : Reaches(n, n, k)

\* C1: no advance-submission of a node of generation k >= 1 is issued before
\* every advance-submission of generation k-1 has reached a terminal outcome
\* (front[k] is generation k-1).
C1_GenerationBarrier ==
    \A k \in 2 .. Len(gw.front) :
       (\E c \in Range(gw.front[k]) : Issued(c))
          => \A p \in Range(gw.front[k - 1]) : async[p].state \in ProcTerminal

\* B's advance-submission has been issued in a graph whose generation of B
\* follows one that holds a node B does not depend on.
C1_Witness ==
    \E k \in 2 .. Len(gw.front) :
       \E c \in Range(gw.front[k]), p \in Range(gw.front[k - 1]) :
          /\ Issued(c)
          /\ <<p, c>> \notin EdgeSet

\* C2: on an acyclic graph the plan puts every node index of graph.nodes into
\* exactly one generation, and every edge goes from an earlier generation to a
\* later one.
C2_EveryNodePlannedOnce ==
    Planned =>
       /\ \A n \in Nodes : Cardinality(GenerationsOf(n)) = 1
       /\ \A e \in EdgeSet :
             \A kp \in GenerationsOf(e[1]), kc \in GenerationsOf(e[2]) : kp < kc

\* C3: on a graph with a cycle (a self-loop included) start ends the scheduler
\* with NOT_A_DAG and no node is ever submitted.
C3_CycleRejected ==
    LET rejected == /\ gw.state = "finished"
                    /\ gw.exit_code = "NOT_A_DAG"
                    /\ \A n \in Nodes : ~Issued(n) /\ job[n].state = "none"
    IN  (gw.state # "created" /\ ~rejected) => ~HasCycle

\* start has rejected a graph with a cycle that is not a self-loop.
C3_Witness ==
    /\ HasCycle
    /\ \A e \in EdgeSet : e[1] # e[2]
    /\ gw.exit_code = "NOT_A_DAG"

\* C4 as claimed: no node is submitted while the job of one of its
\* predecessors is known to have failed.
C4_NoSubmitAfterJobFailure ==
    [][\A e \in EdgeSet :
          (~Issued(e[2]) /\ async'[e[2]].state # "none")
             => job[e[1]].state \notin JobFailed]_vars

\* A node of the generation submit_front is about to process has a predecessor
\* whose advance-submission did not finish ok.
FailedDependencyInFront ==
    \E c \in Range(gw.front[gw.iteration + 1]) :
       \E i \in 1 .. Len(dependencies(c)) :
          async[dependencies(c)[i]].state # "finished_ok"

\* C4, amended: a node is submitted only when the advance-submission of each of
\* its predecessors finished ok, and submit_front on a generation with a node
\* whose predecessor's advance-submission failed ends the scheduler with
\* JOB_FAILED; the state of the predecessor's job plays no part.
C4_NoSubmitAfterFailedAdvance ==
    /\ [](\A c \in Nodes :
            Issued(c) => \A i \in 1 .. Len(dependencies(c)) :
                            async[dependencies(c)[i]].state = "finished_ok")
    /\ [][(/\ gw.state = "running"
           /\ gw' # gw
           /\ not_reached_end_result
           /\ FailedDependencyInFront)
          => (gw'.state = "finished" /\ gw'.exit_code = "JOB_FAILED")]_vars

\* The scheduler has aborted on an edge (p,c) whose p failed to be queued, and c
\* was not submitted.
C4_Witness ==
    /\ gw.state = "finished"
    /\ gw.exit_code = "JOB_FAILED"
    /\ \E e \in EdgeSet : async[e[1]].state = "excepted" /\ ~Issued(e[2])

\* C5: for nodes [A,B] with edge (0,1), when A's advance-submission times out B
\* is never submitted, the scheduler ends with the dependency failure, and A's
\* advance-submission ends with the timeout outcome (the declared exit code
\* CALC_FAILED_TO_SUBMIT), told apart from a failed or killed submission.
C5_TimeoutReported ==
    (/\ edges = << <<0, 1>> >>
     /\ mon[0].error = "SubmittingTimedOutError"
     /\ async[0].state \in ProcTerminal)
    => /\ ~Issued(1)
       /\ gw.state \in {"finished", "excepted"} => gw.exit_code = "JOB_FAILED"
       /\ async[0].exit_code = "CALC_FAILED_TO_SUBMIT"

\* The last generation has been submitted and its advance-submissions are over.
LastGenerationOver ==
    /\ Planned
    /\ gw.iteration = Len(gw.front)
    /\ \A n \in Nodes : Issued(n) => async[n].state \in ProcTerminal

\* C6: once the last generation's advance-submissions are over, the scheduler
\* neither runs finalize nor terminates before the job of every submitted node
\* has reached a terminal state.
C6_EndsAfterAllJobs ==
    (LastGenerationOver /\ gw.state \in {"finished", "excepted"})
       => \A n \in Nodes : job[n].state # "none" => job[n].state \in JobTerminal

\* C7: the scheduler reports success only if the job of every node it submitted
\* finished ok; otherwise finalize reports JOB_FAILED.
C7_SuccessOnlyIfAllJobsOk ==
    (gw.state = "finished" /\ gw.exit_code = "OK")
       => \A n \in Nodes : Issued(n) => job[n].state = "finished_ok"

\* C8: a future is output only after the loop condition saw the job with both
\* its scheduler id and its working directory, and it holds the uuid, the
\* scheduler id and the working directory of the job submitted in start.
C8_FutureOfQueuedJob ==
    \A n \in Nodes :
       future[n] # NoFuture =>
          /\ mon[n].chk_queued = "queued"
          /\ future[n].uuid = CalcUuid(n)
          /\ future[n].uuid = async[n].submitted
          /\ future[n].jobid # NoId
          /\ future[n].jobid = job[n].job_id
          /\ future[n].workdir # NoId
          /\ future[n].workdir = job[n].remote_workdir

\* A future has been output for a job that has failed since.
C8_Witness ==
    \E n \in Nodes : future[n] # NoFuture /\ job[n].state \in JobFailed

\* C9 as claimed: TimedOut is never the exit while the time waited is at most
\* the timeout.
C9_TimedOutOnlyPastBudget ==
    \A n \in Nodes :
       mon[n].error = "SubmittingTimedOutError" => mon[n].time_waited > mon[n].timeout

\* C9, amended: an evaluation of the loop condition ends in TimedOut exactly
\* when the job is not queued and time_waited >= timeout; it goes on sleeping
\* only while time_waited < timeout and ends well only on a queued job.
C9_TimedOutAtBudget ==
    \A n \in Nodes :
       /\ mon[n].error = "SubmittingTimedOutError"
             => mon[n].chk_queued = "not_queued" /\ mon[n].time_waited >= mon[n].timeout
       /\ mon[n].state = "sleeping"
             => mon[n].chk_queued = "not_queued" /\ mon[n].time_waited < mon[n].timeout
       /\ mon[n].state = "finished_ok" => mon[n].chk_queued = "queued"

\* The polling timed out after at least one sleep, with the time waited equal to
\* the timeout.
C9_Witness ==
    \E n \in Nodes :
       /\ mon[n].error = "SubmittingTimedOutError"
       /\ mon[n].timeout > 0
       /\ mon[n].time_waited = mon[n].timeout

\* C10: a job the polling sees excepted makes it exit with NotSubmittedError, a
\* job it sees killed with KilledBeforeSubmittedError; either way the
\* advance-submission does not finish ok and outputs no future.
C10_FailedJobNoFuture ==
    \A n \in Nodes :
       /\ mon[n].seen_state = "excepted"
             => mon[n].state = "failed" /\ mon[n].error = "NotSubmittedError"
       /\ mon[n].seen_state = "killed"
             => mon[n].state = "failed" /\ mon[n].error = "KilledBeforeSubmittedError"
       /\ mon[n].error \in {"NotSubmittedError", "KilledBeforeSubmittedError"}
             => /\ async[n].state \in {"waiting", "excepted"}
                /\ future[n] = NoFuture

\* An advance-submission has ended in failure after its polling saw the job
\* killed.
C10_Witness ==
    \E n \in Nodes :
       /\ mon[n].error = "KilledBeforeSubmittedError"
       /\ async[n].state = "excepted"

\* C11: an advance-submission never submits its job more than once, and on each
\* of its paths (success; monitor failed on an excepted job, on a timeout, on a
\* killed job) it has submitted it exactly once.
C11_OneSubmission ==
    \A n \in Nodes :
       /\ job[n].submissions <= 1
       /\ (async[n].state = "finished_ok" \/ mon[n].error # None)
             => job[n].submissions = 1

\* An advance-submission has ended on a timeout, with its job submitted once.
C11_Witness ==
    \E n \in Nodes :
       /\ async[n].state = "excepted"
       /\ mon[n].error = "SubmittingTimedOutError"
       /\ job[n].submissions = 1

\* C12: no step of a monitor, of an advance-submission or of the scheduler
\* changes anything of a job that is already submitted.
C12_SubmittedJobsUntouched ==
    [][(gw' # gw \/ async' # async \/ mon' # mon)
          => \A n \in Nodes : job[n].state # "none" => job'[n] = job[n]]_vars

\* The scheduler has ended with JOB_FAILED after a timeout; the job that was
\* waited for and another job are still running.
C12_Witness ==
    /\ gw.state = "finished"
    /\ gw.exit_code = "JOB_FAILED"
    /\ \E n, m \in Nodes :
          /\ n # m
          /\ mon[n].error = "SubmittingTimedOutError"
          /\ async[n].state = "excepted"
          /\ job[n].state = "active"
          /\ job[m].state = "active"

RECURSIVE PostOrder(_, _, _)
RECURSIVE PostOrderSubdirs(_, _, _)
\* The directories of a TargetDir, each with the names of the directories from
\* below the root down to itself, subdirs before their parent.
PostOrderSubdirs(subdirs, at, i) ==
    IF i > Len(subdirs) THEN <<>>
    ELSE PostOrder(subdirs[i], at, FALSE) \o PostOrderSubdirs(subdirs, at, i + 1)

PostOrder(t, above, is_root) ==
    LET at == IF is_root THEN above ELSE Append(above, t.name)
    IN  PostOrderSubdirs(t.subdirs, at, 1) \o <<[at |-> at, dir |-> t]>>

RECURSIVE PreOrder(_, _, _)
RECURSIVE PreOrderSubdirs(_, _, _)
\* The same, each directory before its subdirs.
PreOrderSubdirs(subdirs, at, i) ==
    IF i > Len(subdirs) THEN <<>>
    ELSE PreOrder(subdirs[i], at, FALSE) \o PreOrderSubdirs(subdirs, at, i + 1)

PreOrder(t, above, is_root) ==
    LET at == IF is_root THEN above ELSE Append(above, t.name)
    IN  <<[at |-> at, dir |-> t]>> \o PreOrderSubdirs(t.subdirs, at, 1)

\* The files of a directory of one kind: its uploads, its remote paths to copy
\* or its remote paths to link.
FilesOf(dir, kind) ==
    CASE kind = "upload" -> dir.upload
      [] kind = "copy"   -> SelectSeq(dir.remote, LAMBDA f : f.copy)
      [] kind = "link"   -> SelectSeq(dir.remote, LAMBDA f : ~f.copy)

RECURSIVE WantedPaths(_, _, _)
\* For the files of one kind of each located directory in turn: the ancestors'
\* names below the root, the directory's name and the file's target name,
\* joined by "/".
WantedPaths(located, kind, i) ==
    IF i > Len(located) THEN <<>>
    ELSE [k \in 1 .. Len(FilesOf(located[i].dir, kind)) |->
             Join("/", Append(located[i].at, FilesOf(located[i].dir, kind)[k].tgt_name))]
         \o WantedPaths(located, kind, i + 1)

RECURSIVE AllFiles(_, _, _)
\* The files of one kind of each located directory in turn.
AllFiles(located, kind, i) ==
    IF i > Len(located) THEN <<>>
    ELSE FilesOf(located[i].dir, kind) \o AllFiles(located, kind, i + 1)

TgtPaths(triplets) == [i \in 1 .. Len(triplets) |-> triplets[i].tgt_path]

\* C14: every instruction of create_triplets has as its target path the names
\* of the ancestors below the root and of the directory the file is in, then
\* the file's target name, joined by "/".
C14_TargetPathsFollowAncestors ==
    out.step # "new" =>
       LET located == PostOrder(inputs_workdir, <<>>, TRUE)
       IN  /\ TgtPaths(out.triplets.local_copy) = WantedPaths(located, "upload", 1)
           /\ TgtPaths(out.triplets.remote_copy) = WantedPaths(located, "copy", 1)
           /\ TgtPaths(out.triplets.remote_link) = WantedPaths(located, "link", 1)

\* Every directory that exists once the directories of made are created with
\* their missing parents.
WithParents(made) ==
    UNION {{Join("/", SubSeq(d, 1, k)) : k \in 1 .. Len(d)} : d \in Range(made)}

\* The directories of a TargetDir below the root, each before its subdirs.
WantedDirs(t) ==
    LET located == PreOrder(t, <<>>, TRUE)
    IN  [i \in 1 .. (Len(located) - 1) |-> Join("/", located[i + 1].at)]

\* C15: create_dirs creates one directory per directory below the root, each
\* before its subdirs, at the "/"-join of its ancestors' names below the root
\* and its own name, and creates no other directory.
C15_OneDirectoryPerNode ==
    out.step # "new" =>
       /\ [i \in 1 .. Len(out.dirs) |-> Join("/", out.dirs[i])] = WantedDirs(inputs_workdir)
       /\ WithParents(out.dirs) = Range(WantedDirs(inputs_workdir))

\* C16: create_triplets returns one local copy per upload of the tree, every
\* remote path with copy set in the copy list only and every other remote path
\* in the link list only, none dropped and none twice.
C16_EveryFileOnce ==
    out.step # "new" =>
       LET located == PostOrder(inputs_workdir, <<>>, TRUE)
           uploads == AllFiles(located, "upload", 1)
           copies  == AllFiles(located, "copy", 1)
           links   == AllFiles(located, "link", 1)
           lc == out.triplets.local_copy
           rc == out.triplets.remote_copy
           rl == out.triplets.remote_link
       IN  /\ [i \in 1 .. Len(lc) |-> <<lc[i].uuid, lc[i].src_name>>]
                 = [i \in 1 .. Len(uploads) |->
                       <<UploadedUuid(uploads[i].input_label), PathName(uploads[i].source)>>]
           /\ [i \in 1 .. Len(rc) |-> rc[i].src_path]
                 = [i \in 1 .. Len(copies) |-> Join("/", copies[i].src_path)]
           /\ [i \in 1 .. Len(rl) |-> rl[i].src_path]
                 = [i \in 1 .. Len(links) |-> Join("/", links[i].src_path)]

\* create_triplets has run on a tree with files in the root, in a subdir and in
\* a subdir of a subdir.
C16_Witness ==
    /\ out.step = "prepared"
    /\ Len(out.triplets.local_copy) >= 3
    /\ Len(out.triplets.remote_copy) >= 3
    /\ Len(out.triplets.remote_link) >= 3
    /\ \E i \in 1 .. Len(inputs_workdir.subdirs) :
          /\ inputs_workdir.subdirs[i].upload # <<>>
          /\ \E k \in 1 .. Len(inputs_workdir.subdirs[i].subdirs) :
                inputs_workdir.subdirs[i].subdirs[k].upload # <<>>

InstructionSet(r) ==
    {<<"upload", x.src_name, x.tgt_path>> : x \in Range(r.local_copy)}
       \cup {<<"copy", x.src_path, x.tgt_path>> : x \in Range(r.remote_copy)}
       \cup {<<"link", x.src_path, x.tgt_path>> : x \in Range(r.remote_link)}

\* C18: another order of the subdirs of a directory changes neither the set of
\* instructions of create_triplets nor the set of directories of create_dirs.
C18_SiblingOrderIrrelevant ==
    out.step = "reordered" =>
       /\ InstructionSet(out.reordered_triplets) = InstructionSet(out.triplets)
       /\ Range(out.reordered_dirs) = Range(out.dirs)

\* A FuturePath of the tree names a key that is not among the futures given.
MissingFuture ==
    LET located == PreOrder(inputs_workdir, <<>>, TRUE)
    IN  \E i \in 1 .. Len(located) :
           \E f \in Range(located[i].dir.from_future) :
              f.input_label \notin inputs_futures.keys

\* C19: with a FuturePath whose key is missing from the futures given (none
\* given at all included), composing the job fails and the job is not
\* submitted.
C19_MissingFutureStopsSubmission ==
    MissingFuture => out.start # "submitted" /\ out.builder # "built"

\* C20: with a FuturePath whose key is missing, iter_future_links yields no
\* command at all.
C20_NothingYieldedBeforeFailure ==
    MissingFuture => out.yielded = <<>>

RECURSIVE WantedLinks(_, _, _)
\* For each located directory in turn, one line per FuturePath of its
\* from_future: "ln -s", the future's workdir with the relative path, and the
\* directory's path below the root with the target name.
WantedLinks(located, i, k) ==
    IF i > Len(located) THEN <<>>
    ELSE IF k > Len(located[i].dir.from_future) THEN WantedLinks(located, i + 1, 1)
    ELSE LET file == located[i].dir.from_future[k]
         IN  <<"ln -s " \o Join("/", FutureWorkdir(file.input_label)) \o "/"
                  \o Join("/", file.src_relpath) \o " "
                  \o Join("/", Append(located[i].at, file.tgt_name))>>
             \o WantedLinks(located, i, k + 1)

\* C21: with every key among the futures given, iter_future_links driven to its
\* end has yielded one "ln -s <workdir of the future>/<relative path> <path of
\* the directory below the root>/<target name>" per FuturePath of the tree, in
\* traversal order, and before its end a prefix of these.
C21_OneLinkPerFuturePath ==
    ~MissingFuture =>
       LET wanted == WantedLinks(PreOrder(inputs_workdir, <<>>, TRUE), 1, 1)
       IN  /\ out.gen # "raised"
           /\ Len(out.yielded) <= Len(wanted)
           /\ out.yielded = SubSeq(wanted, 1, Len(out.yielded))
           /\ out.gen = "exhausted" => out.yielded = wanted

\* The generator is exhausted on a tree with links in the root, in a subdir and
\* in a subdir of a subdir; the first line is that of the root.
C21_Witness ==
    /\ out.gen = "exhausted"
    /\ ~MissingFuture
    /\ Len(out.yielded) >= 6
    /\ out.yielded[1] = "ln -s scratch/dep_0/out.txt input.txt"
    /\ \E i \in 1 .. Len(inputs_workdir.subdirs) :
          \E k \in 1 .. Len(inputs_workdir.subdirs[i].subdirs) :
             inputs_workdir.subdirs[i].subdirs[k].from_future # <<>>

\* The direct predecessors of a node in the input graph.
DirectPredecessors(n) == {e[1] : e \in {d \in Range(edges) : d[2] = n}}

\* C22: the ids after `#SBATCH -d afterok:` of a submitted node are the job ids
\* of its direct predecessors, each once and each the id the scheduler has given
\* to that predecessor's job; a node without predecessors has none.
C22_AfterokOfDirectPredecessors ==
    \A n \in Nodes :
       async[n].state # "none" =>
          /\ Len(async[n].afterok) = Cardinality(DirectPredecessors(n))
          /\ Range(async[n].afterok) = {SchedulerJobId(p) : p \in DirectPredecessors(n)}
          /\ \A p \in DirectPredecessors(n) : job[p].job_id = SchedulerJobId(p)

\* A node with two direct predecessors is submitted, next to one without any.
C22_Witness ==
    \E n, m \in Nodes :
       /\ async[n].state # "none"
       /\ Cardinality(DirectPredecessors(n)) = 2
       /\ Len(async[n].afterok) = 2
       /\ async[m].state # "none"
       /\ async[m].afterok = <<>>

\* C23: the scheduler's next generation waits for the AsyncWorkchains of the
\* last one only: whenever these have all terminated and a generation is left,
\* submit_front can run, whatever state the jobs are in.
C23_AdvanceOnSubmissionsAlone ==
    (/\ gw.state = "running"
     /\ not_reached_end_result
     /\ \A n \in gw.awaiting : async[n].state \in ProcTerminal)
       => ENABLED GraphSubmitFront

\* On an edge (p, c) the job of c is submitted while the job of p is still
\* running.
C23_Witness ==
    \E e \in Range(edges) :
       /\ job[e[1]].state = "active"
       /\ job[e[2]].state = "active"
       /\ job[e[2]].submissions = 1

C25_ContextWrittenOnce ==
    [][\A n \in Nodes :
          /\ (n \in ctx_node_async) = (async[n].state # "none")
          /\ n \in ctx_node_async =>
                /\ n \in ctx_node_async'
                /\ async'[n].futures = async[n].futures
                /\ async'[n].afterok = async[n].afterok
                /\ async[n].state # "created" => async'[n].state # "created"
                /\ async[n].submitted # NoId => async'[n].submitted = async[n].submitted
                /\ future[n] # NoFuture => future'[n] = future[n]]_vars

\* A node of the second generation was built from the entry of its
\* predecessor, and both entries are in the context.
C25_Witness ==
    \E e \in Range(edges) :
       /\ {e[1], e[2]} \subseteq gw.node_async
       /\ async[e[2]].futures # <<>>
       /\ future[e[1]] # NoFuture
       /\ future[e[2]] # NoFuture


\* The spec names a computer: the field is neither None nor the empty string.
NamesComputer == Truthy(generic.computer)

\* C26: once Generic.load_computer has been called, it has returned the named
\* computer if the spec names one the database holds, it has returned the
\* code's computer if the spec names none and the code has one, and it has
\* raised ComputerNotFoundError exactly when the spec names none and the code,
\* which the database holds, has no computer.
C26_LoadComputer ==
    loaded # NoLoaded =>
        /\ (NamesComputer /\ generic.computer \in db.computers)
              => loaded = Return(generic.computer)
        /\ (~NamesComputer /\ db.code.kind = "installed")
              => loaded = Return(db.code.computer)
        /\ loaded = Raise("ComputerNotFoundError")
              <=> (~NamesComputer /\ db.code.kind = "portable")

\* C26 witness: load_computer has raised ComputerNotFoundError for a spec
\* without computer and a portable code, in a database that holds computers.
C26_Witness ==
    /\ loaded = Raise("ComputerNotFoundError")
    /\ generic.computer = None
    /\ db.code = PortableCode
    /\ db.computers # {}


\* The step is one invocation of the command.
Invoked(command) ==
    /\ cli'.count # cli.count
    /\ cli'.command = command

\* C27: init on a path that holds hpclb.yaml ends with exit code 2 and the
\* message "Project is already initialized." and leaves the config file and
\* every other file as they were.
C27_InitRejectsProject ==
    [][(Invoked(<<"init">>) /\ config_file_exists(fs))
         => /\ cli'.exit_code = 2
            /\ cli'.message = "Project is already initialized."
            /\ fs' = fs]_vars

\* C27 witness: init was rejected on a path whose hpclb.yaml was touched by
\* hand, and the file is still empty.
C27_Witness ==
    /\ cli.command = <<"init">>
    /\ cli.exit_code = 2
    /\ fs.config = EmptyConfigFile
    /\ ~fs.pyproject

\* C28: add-site on a project whose site directory exists ends with exit code
\* 2 and the message "site '<site>' already present." and changes neither the
\* config nor the site directory; an add-site that goes through adds a site
\* the config does not list yet.
C28_AddSiteRejectsPresentSite ==
    [][\A site \in Sites :
         Invoked(<<"add-site", site>>) =>
           /\ fs.site_dir[site] # "absent"
                => /\ cli'.exit_code = 2
                   /\ cli'.message = "site '" \o site \o "' already present."
                   /\ fs' = fs
           /\ cli'.exit_code = 0
                => /\ site \notin fs.config.sites
                   /\ fs.site_dir[site] = "absent"]_vars

\* C28 witness: add-site was rejected for a site that an earlier add-site
\* added, after an authentication was recorded for it, which is still there.
C28_Witness ==
    /\ cli.command = <<"add-site", "f7ttest">>
    /\ cli.exit_code = 2
    /\ "f7ttest" \in fs.config.sites
    /\ fs.site_dir["f7ttest"] = "filled"
    /\ fs.config.machines["f7ttest"] # 0

\* C29: auth-site on an initialized project without the site directory ends
\* with exit code 2 and the message "site '<site>' not added yet" and records
\* nothing: the config, with its machines and auths, and the secret files are
\* as they were.
C29_AuthSiteRejectsAbsentSite ==
    [][\A site \in AuthSites :
         (/\ Invoked(<<"auth-site", site>>)
          /\ fs.config.file = "valid"
          /\ fs.site_dir[site] = "absent")
           => /\ cli'.exit_code = 2
              /\ cli'.message = "site '" \o site \o "' not added yet, add it with"
              /\ fs'.config = fs.config
              /\ fs'.secrets = fs.secrets
              /\ fs' = fs]_vars

\* C29 witness: auth-site was rejected on an initialized project to which
\* another site was added, but not this one.
C29_Witness ==
    /\ cli.command = <<"auth-site", "f7ttest">>
    /\ cli.exit_code = 2
    /\ fs.config.file = "valid"
    /\ fs.config.sites = {"cscs"}
    /\ fs.site_dir["f7ttest"] = "absent"
    /\ fs.secrets = {}


\* The nodes with an edge into c, and the largest element of a set of numbers.
Parents(c) == {e[1] : e \in {d \in EdgeSet : d[2] = c}}
Largest(S) == CHOOSE m \in S : \A x \in S : x <= m

\* The plan is Kahn's earliest layering of the nodes in ns: those without an
\* incoming edge are exactly the first generation, and every other node is in
\* the generation after the last one that holds one of its predecessors
\* (generation k is front[k + 1]).
EarliestLayering(ns) ==
    /\ {n \in ns : Parents(n) = {}}
          = (IF gw.front = <<>> THEN {} ELSE Range(gw.front[1]))
    /\ \A c \in ns :
          Parents(c) # {} =>
             GenerationsOf(c) = {1 + Largest(UNION {GenerationsOf(p) : p \in Parents(c)})}

\* The layering is the earliest one over the nodes the DiGraph holds, which
\* are the nodes named by an edge.
KahnEarliestOverDag ==
    Planned => EarliestLayering(Range(DiGraphNodes(edges, Len(edges))))

\* C30: the plan computed by start is Kahn's earliest layering of the nodes of
\* the graph: generation 0 is exactly the set of nodes with no incoming edge,
\* and every other node is in generation 1 + max of its predecessors'
\* generations.
C30_KahnEarliestLayering ==
    Planned => EarliestLayering(Nodes)


C32_UninitializedProjectRejected ==
    [][\A site \in Sites :
         ((Invoked(<<"add-site", site>>) \/ Invoked(<<"auth-site", site>>))
            /\ ~config_file_exists(fs))
           => /\ cli'.exit_code = 2
              /\ fs' = fs]_vars


\* C33: when the scheduler has ended on an acyclic graph and no
\* advance-submission failed, every node of graph.nodes was submitted exactly
\* once and the scheduler ended through finalize.
C33_EveryNodeSubmittedOnce ==
    (/\ gw.state \in {"finished", "excepted"}
     /\ ~HasCycle
     /\ \A n \in Nodes : async[n].state # "excepted")
    => /\ \A n \in Nodes : job[n].submissions = 1
       /\ gw.state = "finished"
       /\ gw.exit_code = "OK"


\* C34: when submit_front raises on an index that graph.nodes does not have,
\* no node has been submitted, neither before the step nor in it.
C34_InvalidIndexFailsBeforeSubmission ==
    [][(/\ gw.state = "running"
        /\ not_reached_end_result
        /\ gw'.state = "excepted")
         => \A n \in Nodes : async'[n].state = "none"]_vars


\* Node n is downstream of a node whose advance-submission failed.
DownstreamOfFailed(n) ==
    \E p \in Nodes :
       /\ async[p].state = "excepted"
       /\ \E k \in 1 .. NumNodes : Reaches(p, n, k)

\* C35 as claimed: after submit_front has aborted with JOB_FAILED, the only
\* nodes of the plan left unsubmitted are those downstream of a failed node.
C35_AbortStopsOnlySubtree ==
    gw.exit_code = "JOB_FAILED" =>
       \A n \in Range(DiGraphNodes(edges, Len(edges))) :
          ~Issued(n) => DownstreamOfFailed(n)

\* C35, amended: the abort ends the scheduler.  Of the current generation
\* exactly the nodes before the first one with a failed dependency have been
\* submitted, no node of a later generation is ever submitted, and the
\* scheduler has terminated without waiting for anything.
C35_AbortEndsScheduler ==
    gw.exit_code = "JOB_FAILED" =>
       LET gen  == gw.front[gw.iteration + 1]
           stop == FirstFailing(gen)
       IN  /\ gw.state = "finished"
           /\ stop <= Len(gen)
           /\ \A i \in 1 .. Len(gen) : Issued(gen[i]) <=> i < stop
           /\ \A k \in (gw.iteration + 2) .. Len(gw.front) :
                 \A n \in Range(gw.front[k]) : ~Issued(n)

\* The scheduler has aborted and left unsubmitted a node that is downstream of
\* no failed node and comes later in the generation than the node whose
\* dependency failed.
C35_Witness ==
    /\ gw.exit_code = "JOB_FAILED"
    /\ \E i \in 1 .. Len(gw.front[gw.iteration + 1]) :
          LET n == gw.front[gw.iteration + 1][i]
          IN  /\ i > FirstFailing(gw.front[gw.iteration + 1])
              /\ ~Issued(n)
              /\ ~DownstreamOfFailed(n)
              /\ DependenciesOk(n)


\* C36: the futures handed to the advance-submission of a node hold one entry
\* per direct predecessor p, under the key dep_<p> and with the future that
\* p's own advance-submission has output, and nothing else; a node without
\* predecessors gets no futures.
C36_FuturesOfDirectPredecessors ==
    \A n \in Nodes :
       Issued(n) =>
          /\ Len(async[n].futures) = Cardinality(DirectPredecessors(n))
          /\ {f.key : f \in Range(async[n].futures)}
                = {<<"dep", p>> : p \in DirectPredecessors(n)}
          /\ \A f \in Range(async[n].futures) :
                /\ f.value = future[f.key[2]]
                /\ f.value.uuid = CalcUuid(f.key[2])

\* A node whose only predecessor is not node 0 has been submitted with that
\* predecessor's future, after a node without predecessors that got none.
C36_Witness ==
    \E n \in Nodes :
       /\ Issued(n)
       /\ DirectPredecessors(n) = {1}
       /\ Len(async[n].futures) = 1
       /\ async[n].futures[1].key = <<"dep", 1>>
       /\ Issued(0)
       /\ async[0].futures = <<>>


\* The sleeps the polling has begun, and the quotient rounded up.
Sleeps(m) == (m.time_waited \div m.poll_interval) + (IF m.state = "sleeping" THEN 1 ELSE 0)
CeilDiv(t, i) == (t + i - 1) \div i

\* C37: for every poll interval and timeout and whatever the job does, the
\* polling never begins more than ceil(timeout / poll_interval) sleeps, it ends
\* either well with no error or failed with exactly one of the three errors,
\* and it does end.
C37_PollingTerminates ==
    /\ [](/\ Sleeps(mon[0]) <= CeilDiv(mon[0].timeout, mon[0].poll_interval)
          /\ mon[0].state = "finished_ok" => mon[0].error = None
          /\ mon[0].state = "failed"
                => mon[0].error \in {"SubmittingTimedOutError", "NotSubmittedError",
                                     "KilledBeforeSubmittedError"}
          /\ mon[0].state \in {"created", "sleeping"} => mon[0].error = None)
    /\ <>(mon[0].state \in {"finished_ok", "failed"})

\* The polling has timed out after ceil(timeout / poll_interval) sleeps, with a
\* timeout that is no multiple of the poll interval.
C37_Witness ==
    /\ mon[0].state = "failed"
    /\ mon[0].error = "SubmittingTimedOutError"
    /\ mon[0].timeout = 3
    /\ mon[0].poll_interval = 2
    /\ Sleeps(mon[0]) = 2


\* C38: the generation counter is 0 until the first submit_front, a
\* submit_front that does not abort adds exactly 1 to it and nothing else
\* changes it, it never exceeds the number of generations, finalize is reached
\* only with every generation submitted, and the scheduler terminates, finished
\* or excepted.
C38_SchedulerTerminates ==
    /\ [](gw.state = "created" => gw.iteration = 0)
    /\ [][/\ gw'.iteration # gw.iteration
             => /\ gw.state = "running"
                /\ not_reached_end_result
                /\ gw'.state = "running"
                /\ gw'.iteration = gw.iteration + 1
          /\ (gw.state = "running" /\ not_reached_end_result /\ gw'.state = "running"
                /\ gw' # gw)
             => gw'.iteration = gw.iteration + 1]_vars
    /\ [](Planned => gw.iteration <= Len(gw.front))
    /\ []((gw.state = "finalizing" \/ gw.exit_code = "OK") => gw.iteration = Len(gw.front))
    /\ <>(gw.state \in {"finished", "excepted"})

\* The scheduler has ended through finalize after two generations.
C38_Witness ==
    /\ gw.state = "finished"
    /\ gw.exit_code = "OK"
    /\ Len(gw.front) = 2
    /\ gw.iteration = 2

\* C39: at every check in wait_for_submitted the queued condition comes before
\* the other two exits: whenever the function, at entry or on waking from a
\* sleep, finds the job with both its scheduler job id and its remote working
\* directory, it ends in success, whatever the time waited and even if the job
\* is Excepted or Killed at that moment; at entry it does so without a sleep.
C39_QueuedTakesPrecedence ==
    [][\A n \in Nodes :
          (/\ mon[n].state \in {"created", "sleeping"}
           /\ mon'[n] # mon[n]
           /\ ~NotQueued(job[n]))
          => /\ mon'[n].state = "finished_ok"
             /\ mon[n].state = "created" => mon'[n].time_waited = 0]_vars

\* C39, restricted to the evaluations of the loop condition: at entry, and
\* after a sleep whose match did not raise, a queued job ends in success even
\* when the budget is spent or the job is Excepted or Killed.
C39_QueuedAtLoopCondition ==
    [][\A n \in Nodes :
          (/\ mon[n].state \in {"created", "sleeping"}
           /\ mon'[n] # mon[n]
           /\ ~NotQueued(job[n])
           /\ mon[n].state = "sleeping" => MatchProcessState(mon'[n].seen_state) = None)
          => /\ mon'[n].state = "finished_ok"
             /\ mon[n].state = "created" => mon'[n].time_waited = 0]_vars

====
